---- MODULE Spec2Model ----
(***************************************************************************)
(* Turn orchestration of the moderated chat backend.                       *)
(*                                                                         *)
(* Two variants of the Lambda handler live in the repository:              *)
(*   "converse" : src/unnamed/part_005 (Converse API, randomUUID,          *)
(*                convertConfidenceToNumber, guardrail spans)              *)
(*   "invoke"   : src/unnamed/part_003 (InvokeModel API, uuidv4,           *)
(*                parseFloat of the confidence)                            *)
(* Both are modelled; `variant` selects the one a behaviour runs.          *)
(*                                                                         *)
(* Scores are kept in tenths (1.0 = 10, 0.7 = 7, 0.3 = 3, 0.0 = 0); the    *)
(* JavaScript value NaN is the sentinel NaN below.                         *)
(***************************************************************************)
EXTENDS Integers, Sequences, FiniteSets, TLC

VARIABLES
    variant,                \* which handler file runs
    pc,                     \* position of the handler between its awaits
    now,                    \* last value returned by Date.now()
    nextUuid,               \* number of ids handed out by randomUUID / uuidv4
    store,                  \* DynamoDB table: set of items, key (id, timestamp)
    storeAtStart,           \* the table when the running turn started
    request,                \* parsed request body of the running turn
    sessionId,              \* const sessionId
    userMessage,            \* const userMessage
    userGuardrailsResult,   \* const userGuardrailsResult
    messages,               \* let messages (working history)
    modelResponse,          \* const modelResponse
    modelGuardrailsResult,  \* const modelGuardrailsResult
    assistantMessage,       \* const assistantMessage
    response,               \* the APIGatewayProxyResult returned
    calls,                  \* external calls issued in the running turn, in order
    classified,             \* what the classifier answered, per screened source
    gatePc,                 \* position of the stand-alone applyGuardrails run
    gateVariant,            \* handler file whose applyGuardrails is run
    gateIn,                 \* what bedrockClient.send(ApplyGuardrailCommand) did
    gateOut,                \* what applyGuardrails returned
    session,                \* TRUE when the behaviour is a sequence of invocations
    served,                 \* the invocations that have returned, oldest first
    spans,                  \* the telemetry spans of the running turn, by name
    brackets,               \* per external call, the spans open when it was issued
    invoked,                \* what bedrockClient.send did for the model call
    wire,                   \* the messages of the command sent to the model
    chat,                   \* state of the Chat component that sends the requests
    pair                    \* locals of two invocations that run concurrently

turnVars == <<pc, now, nextUuid, store, storeAtStart, request, sessionId,
              userMessage, userGuardrailsResult, messages, modelResponse,
              modelGuardrailsResult, assistantMessage, response, calls,
              classified, wire>>
gateVars == <<gatePc, gateVariant, gateIn, gateOut>>
sessionVars == <<session, served>>
traceVars == <<spans, brackets, invoked>>
peerVars == <<chat, pair>>
vars == <<variant, turnVars, gateVars, sessionVars, wire, peerVars, traceVars, peerVars>>

-----------------------------------------------------------------------------
(* Bounds of the model *)

\* largest value Date.now() returns
MaxClock == 2
\* longest contentPolicy.filters list of a classifier response
MaxFilters == 2
\* most assessments in a classifier response
MaxAssessments == 2
\* most invocations of the handler in one behaviour of SpecSession
MaxTurns == 2

-----------------------------------------------------------------------------
(* Safety gate: applyGuardrails *)

Variants == {"converse", "invoke"}

Categories == {"harmful", "hateful", "sexual", "toxic"}

\* parseFloat of a non-numeric string
NaN == -1

\* GuardrailContentFilterType values the classifier may report; MISCONDUCT
\* stands for every type the handler has no branch for
FilterTypes == {"HATE", "SEXUAL", "VIOLENCE", "INSULTS", "MISCONDUCT"}

\* GuardrailContentPolicyAction
FilterActions == {"BLOCKED", "NONE"}

\* GuardrailContentFilterConfidence, a missing field, and an unlisted value
Confidences == {"HIGH", "MEDIUM", "LOW", "NONE", "ABSENT", "UNKNOWN"}

Filters == [type : FilterTypes, action : FilterActions, confidence : Confidences]

\* filters after the first of a list are drawn from this smaller set
MoreFilters == [type : FilterTypes, action : FilterActions, confidence : {"LOW"}]

\* errors bedrockClient.send can raise for ApplyGuardrailCommand
GuardrailErrors == {"AccessDeniedException", "ResourceNotFoundException",
                    "ServiceQuotaExceededException", "ThrottlingException",
                    "InternalServerException", "Error"}

NoError == "none"

ZeroFilterResults == [c \in Categories |-> [filtered |-> FALSE, score |-> 0]]

convertConfidenceToNumber(confidence) ==
    IF confidence = "ABSENT" THEN 0
    ELSE CASE confidence = "HIGH" -> 10
           [] confidence = "MEDIUM" -> 7
           [] confidence = "LOW" -> 3
           [] confidence = "NONE" -> 0
           [] OTHER -> 0

\* parseFloat(filter.confidence || '0')
parseFloatConfidence(confidence) ==
    IF confidence = "ABSENT" THEN 0 ELSE NaN

ScoreOf(v, confidence) ==
    IF v = "converse" THEN convertConfidenceToNumber(confidence)
    ELSE parseFloatConfidence(confidence)

\* a gate that also blocks on a reported confidence
IsBlockedOrScored(filter) ==
    filter.action = "BLOCKED" \/ filter.confidence \in {"HIGH", "MEDIUM", "LOW"}

\* filter.action === GuardrailContentPolicyAction.BLOCKED
IsBlocked(filter) == filter.action = "BLOCKED"

\* a chain of branches with two of the targets exchanged
CategoryOfSwapped(type) ==
    CASE type = "HATE" -> "hateful"
      [] type = "SEXUAL" -> "sexual"
      [] type = "VIOLENCE" -> "toxic"
      [] type = "INSULTS" -> "harmful"
      [] OTHER -> "none"

\* the category a filter type is written to; "none" when no branch matches
CategoryOf(type) ==
    CASE type = "HATE" -> "hateful"
      [] type = "SEXUAL" -> "sexual"
      [] type = "VIOLENCE" -> "harmful"
      [] type = "INSULTS" -> "toxic"
      [] OTHER -> "none"

\* body of the forEach callback
ApplyFilter(v, results, filter) ==
    IF CategoryOf(filter.type) \in Categories
    THEN [results EXCEPT ![CategoryOf(filter.type)] =
              [filtered |-> IsBlocked(filter),
               score |-> ScoreOf(v, filter.confidence)]]
    ELSE results

RECURSIVE ForEachFilter(_, _, _)
ForEachFilter(v, results, filters) ==
    IF filters = <<>> THEN results
    ELSE ForEachFilter(v, ApplyFilter(v, results, Head(filters)), Tail(filters))

\* the assessment whose filters are processed
PickAssessment(assessments) == assessments[1]

ProcessResponse(v, assessments) ==
    IF Len(assessments) > 0
    THEN LET assessment == PickAssessment(assessments) IN
         IF assessment.contentPolicy
         THEN ForEachFilter(v, ZeroFilterResults, assessment.filters)
         ELSE ZeroFilterResults
    ELSE ZeroFilterResults

GuardrailErrorMessage(error) ==
    CASE error = "AccessDeniedException" ->
             "Access denied: Insufficient permissions to apply guardrails"
      [] error = "ResourceNotFoundException" ->
             "Guardrail not found: The specified guardrail ID or version does not exist"
      [] error = "ServiceQuotaExceededException" ->
             "Service quota exceeded: Request exceeds the service quota for your account"
      [] error = "ThrottlingException" ->
             "Request throttled: Too many requests in a short period"
      [] error = "InternalServerException" ->
             "Internal server error: An issue occurred on the AWS side"
      [] OTHER -> "An error occurred while applying guardrails"

\* a catch block that blocks the content when the classifier fails
GuardrailsFailClosed(error) ==
    [threw |-> FALSE,
     error |-> GuardrailErrorMessage(error),
     contentFilterResults |-> [c \in Categories |-> [filtered |-> TRUE, score |-> 0]]]

\* a catch block that raises the error again
GuardrailsFailureRethrow(error) ==
    [threw |-> TRUE,
     error |-> GuardrailErrorMessage(error),
     contentFilterResults |-> ZeroFilterResults]

\* a catch block that reports one category only
GuardrailsFailurePartial(error) ==
    [threw |-> FALSE,
     error |-> GuardrailErrorMessage(error),
     contentFilterResults |->
         [c \in {"harmful"} |-> [filtered |-> FALSE, score |-> 0]]]

\* a catch block that reports the failure as a full harmful score
GuardrailsFailureFlagged(error) ==
    [threw |-> FALSE,
     error |-> GuardrailErrorMessage(error),
     contentFilterResults |->
         [ZeroFilterResults EXCEPT !["harmful"] = [filtered |-> FALSE, score |-> 10]]]

\* the value of the catch block
GuardrailsFailure(error) ==
    [threw |-> FALSE,
     error |-> GuardrailErrorMessage(error),
     contentFilterResults |-> ZeroFilterResults]

\* cr is what the classifier call did: [kind, error, assessments].
\* kind "throw": bedrockClient.send rejected with cr.error;
\* kind "malformed": the response holds a null assessment, so reading
\* assessment.contentPolicy raises a TypeError inside the try block;
\* kind "ok": a well-formed response.
applyGuardrails(v, cr) ==
    IF cr.kind = "throw"
    THEN GuardrailsFailure(cr.error)
    ELSE IF cr.kind = "malformed"
    THEN GuardrailsFailure("TypeError")
    ELSE [threw |-> FALSE,
          error |-> NoError,
          contentFilterResults |-> ProcessResponse(v, cr.assessments)]

\* a check that looks at one category only
IsFilteredHarmfulOnly(result) ==
    result.contentFilterResults["harmful"].filtered = TRUE

\* Object.values(contentFilterResults).some(filter => filter.filtered === true)
IsFiltered(result) ==
    \E c \in Categories : result.contentFilterResults[c].filtered = TRUE

-----------------------------------------------------------------------------
(* Messages, requests and the table *)

Roles == {"user", "assistant", "system"}

\* a ChatMessage; sessionId "" stands for an absent field
ChatMessage(id, timestamp, role, content, sid) ==
    [id |-> id, timestamp |-> timestamp, role |-> role, content |-> content,
     sessionId |-> sid]

NoMessage == ChatMessage("", 0, "none", "", "")

INPUT_REFUSAL == "Your message was filtered by content safety guardrails."
INPUT_REFUSAL_ERROR == "Your message was filtered by content safety guardrails"
OUTPUT_REFUSAL ==
    "I'm sorry, but I cannot provide a response to that query as it may contain inappropriate content."
HANDLER_ERROR == "An error occurred while processing your request"

\* ids randomUUID / uuidv4 hand out, in order
Uuids == <<"uuid-1", "uuid-2", "uuid-3", "uuid-4">>

\* body.sessionId of a request; "" stands for absent or empty
RequestSessionIds == {"", "s1"}

RequestMessages == {"Hello"}

\* body.history of a request that sends `message`
Histories(message) ==
    { <<>>,
      << ChatMessage("local-1", 0, "user", message, "") >>,
      << ChatMessage("local-1", 0, "system", "Be brief", ""),
         ChatMessage("local-2", 0, "user", message, ""),
         ChatMessage("local-3", 0, "assistant", "Hi there", "") >>,
      << ChatMessage("local-1", 0, "user", "Earlier question", ""),
         ChatMessage("local-2", 0, "assistant", "Earlier answer", "") >>,
      << ChatMessage("local-1", 0, "user", message, ""),
         ChatMessage("local-2", 0, "assistant", "Hi there", ""),
         ChatMessage("local-3", 0, "user", message, "") >> }

Requests ==
    { [parses |-> TRUE, sessionId |-> s, message |-> m, history |-> h] :
        s \in RequestSessionIds, m \in RequestMessages, h \in Histories("Hello") }

\* event.body that JSON.parse rejects
BadRequest == [parses |-> FALSE, sessionId |-> "", message |-> "", history |-> <<>>]

NoRequest == [parses |-> TRUE, sessionId |-> "", message |-> "", history |-> <<>>]

\* PutCommand: the item replaces the one with the same (id, timestamp) key
Put(table, item) ==
    { i \in table : ~(i.id = item.id /\ i.timestamp = item.timestamp) } \cup {item}

\* Item: {...message, sessionId}
Item(message, sid) == [message EXCEPT !.sessionId = sid]

RECURSIVE Ascending(_)
Ascending(items) ==
    IF items = {} THEN <<>>
    ELSE LET first == CHOOSE i \in items :
                          \A j \in items : i.timestamp <= j.timestamp
         IN <<first>> \o Ascending(items \ {first})

\* a query without the key condition: the items of every session
QueryEverySession(table, sid) == Ascending(table)

\* QueryCommand: id = :sessionId, ScanIndexForward
Query(table, sid) == Ascending({ i \in table : i.id = sid })

\* what the table may hold before the turn, with the clock value then
InitialTables ==
    { [table |-> {}, clock |-> 0],
      [table |-> { ChatMessage("s1", 0, "user", "Earlier question", "s1") },
       clock |-> 0],
      [table |-> { ChatMessage("s1", 0, "user", "Earlier question", "s1"),
                   ChatMessage("s1", 1, "assistant", "Earlier answer", "s1") },
       clock |-> 1] }

\* Date.now(): never earlier than the last reading
DateNow(last) == { t \in last..(last + 1) : t <= MaxClock }

-----------------------------------------------------------------------------
(* What the external capabilities may do in a turn *)

Clear == [kind |-> "ok", error |-> NoError, assessments |-> <<>>]

OneFilter(type, action, confidence) ==
    [kind |-> "ok", error |-> NoError,
     assessments |-> << [contentPolicy |-> TRUE,
                         filters |-> << [type |-> type, action |-> action,
                                         confidence |-> confidence] >>] >>]

\* classifier behaviours offered to a screening stage of a turn
TurnClassifierOutcomes ==
    { Clear,
      [kind |-> "throw", error |-> "ThrottlingException", assessments |-> <<>>],
      [kind |-> "malformed", error |-> NoError, assessments |-> <<>>],
      OneFilter("HATE", "NONE", "MEDIUM"),
      OneFilter("HATE", "BLOCKED", "HIGH"),
      OneFilter("VIOLENCE", "BLOCKED", "ABSENT") }

\* the classifier has not been asked about this source yet
NotCalled == [kind |-> "none", error |-> NoError, assessments |-> <<>>]

NoClassified == [INPUT |-> NotCalled, OUTPUT |-> NotCalled]

MODEL_ERROR == "Model timed out"
STORE_ERROR == "Table unavailable"

ModelTexts == {"Hi there", ""}

ModelOutcomes ==
    { [kind |-> "ok", text |-> t, message |-> ""] : t \in ModelTexts }
    \cup { [kind |-> "throw", text |-> "", message |-> MODEL_ERROR] }

\* the environment of a sequence of invocations: fewer alternatives per call,
\* so that several invocations fit in one behaviour
SessionRequests ==
    { [parses |-> TRUE, sessionId |-> s, message |-> "Hello", history |-> <<>>] :
        s \in RequestSessionIds }

SessionClassifierOutcomes == { Clear, OneFilter("HATE", "BLOCKED", "HIGH") }

SessionModelOutcomes ==
    { [kind |-> "ok", text |-> "Hi there", message |-> ""],
      [kind |-> "throw", text |-> "", message |-> MODEL_ERROR] }

-----------------------------------------------------------------------------
(* Model invoker and session store, as the handler sees them *)

\* a call either returns `value` or raises an error with message `error`
Returned(value) == [threw |-> FALSE, error |-> "", value |-> value]
Raised(error) == [threw |-> TRUE, error |-> error, value |-> ""]

\* an invoker that swallows the model's error and returns no text
invokeModelSwallow(outcome) ==
    IF outcome.kind = "throw" THEN Returned("") ELSE Returned(outcome.text)

\* an invoker that raises an error of its own in place of the model's
invokeModelWrap(outcome) ==
    IF outcome.kind = "throw" THEN Raised("Model invocation failed")
    ELSE Returned(outcome.text)

\* invokeModel: returns the generated text, re-raises the model's error
invokeModel(outcome) ==
    IF outcome.kind = "throw" THEN Raised(outcome.message)
    ELSE Returned(outcome.text)

\* a conversion that leaves the system entries out
converseMessagesWithoutSystem(history) ==
    LET kept == SelectSeq(history, LAMBDA m : m.role # "system") IN
    [i \in 1..Len(kept) |->
        [role |-> IF kept[i].role = "user" THEN "USER" ELSE "ASSISTANT",
         content |-> << [text |-> kept[i].content] >>]]

\* messages.map(...) of the Converse invoker: ConversationRole has USER and
\* ASSISTANT only
converseMessages(history) ==
    [i \in 1..Len(history) |->
        [role |-> IF history[i].role = "user" THEN "USER" ELSE "ASSISTANT",
         content |-> << [text |-> history[i].content] >>]]

\* messages.map(...) of the InvokeModel invoker, Claude body
claudeMessages(history) ==
    [i \in 1..Len(history) |->
        [role |-> history[i].role, content |-> history[i].content]]

\* the messages of the command the invoker of handler file v sends
WireMessages(v, history) ==
    IF v = "converse" THEN converseMessages(history) ELSE claudeMessages(history)

\* a store that logs the table's error without raising it
storeMessageSwallow(table, message, sid, ok) ==
    IF ok
    THEN [threw |-> FALSE, error |-> "", table |-> Put(table, Item(message, sid))]
    ELSE [threw |-> FALSE, error |-> "", table |-> table]

\* a store whose item is written although the call raises
storeMessageWriteThenThrow(table, message, sid, ok) ==
    [threw |-> ~ok, error |-> IF ok THEN "" ELSE STORE_ERROR,
     table |-> Put(table, Item(message, sid))]

\* storeMessage: puts the item, re-raises the table's error
storeMessage(table, message, sid, ok) ==
    IF ok
    THEN [threw |-> FALSE, error |-> "", table |-> Put(table, Item(message, sid))]
    ELSE [threw |-> TRUE, error |-> STORE_ERROR, table |-> table]

\* a reader without the catch block: the table's error reaches the handler
getSessionMessagesRethrow(table, sid, ok) ==
    IF ok THEN [threw |-> FALSE, error |-> "", value |-> Query(table, sid)]
    ELSE [threw |-> TRUE, error |-> STORE_ERROR, value |-> <<>>]

\* getSessionMessages: the session's items, [] when the query fails
getSessionMessages(table, sid, ok) ==
    IF ok THEN [threw |-> FALSE, error |-> "", value |-> Query(table, sid)]
    ELSE [threw |-> FALSE, error |-> "", value |-> <<>>]

-----------------------------------------------------------------------------
(* Turn orchestrator: the handler *)

PARSE_ERROR == "Unexpected token in JSON"

NoScores == [c \in Categories |-> 0]

\* score || 0
OrZero(score) == IF score = NaN THEN 0 ELSE score

\* the guardrailsScores object of a response body
GuardrailsScores(result) ==
    [c \in Categories |-> OrZero(result.contentFilterResults[c].score)]

NoResponse ==
    [statusCode |-> 0, hasSessionId |-> FALSE, sessionId |-> "",
     hasMessage |-> FALSE, message |-> NoMessage, error |-> "",
     errorMessage |-> "", hasScores |-> FALSE, guardrailsScores |-> NoScores]

\* a catch block that answers 200
ErrorResponseOk(errorMessage) ==
    [NoResponse EXCEPT !.statusCode = 200, !.error = HANDLER_ERROR,
                       !.errorMessage = errorMessage]

\* a catch block that raises the error again: the caller gets no response
ErrorResponseRethrow(errorMessage) == NoResponse

\* the catch block of the handler
ErrorResponse(errorMessage) ==
    [NoResponse EXCEPT !.statusCode = 500, !.error = HANDLER_ERROR,
                       !.errorMessage = errorMessage]

\* a rejection that reports the scores and leaves the session id out
RejectedResponseNoSession(v, sid, result, t) ==
    [NoResponse EXCEPT !.statusCode = 400,
                       !.error = INPUT_REFUSAL_ERROR,
                       !.hasScores = TRUE,
                       !.guardrailsScores = GuardrailsScores(result)]

\* the return inside if (isUserMessageFiltered); t is the Date.now() read there
RejectedResponse(v, sid, result, t) ==
    IF v = "converse"
    THEN [NoResponse EXCEPT !.statusCode = 400,
                            !.hasMessage = TRUE,
                            !.message = ChatMessage(sid, t, "assistant", INPUT_REFUSAL, ""),
                            !.hasSessionId = TRUE, !.sessionId = sid,
                            !.hasScores = TRUE,
                            !.guardrailsScores = GuardrailsScores(result)]
    ELSE [NoResponse EXCEPT !.statusCode = 400,
                            !.error = INPUT_REFUSAL_ERROR,
                            !.hasSessionId = TRUE, !.sessionId = sid,
                            !.hasScores = TRUE,
                            !.guardrailsScores = GuardrailsScores(result)]

\* a final return that rejects the turn when the output was filtered
SuccessResponseAborting(sid, message, result) ==
    IF \E c \in Categories : result.contentFilterResults[c].filtered
    THEN [NoResponse EXCEPT !.statusCode = 400,
                            !.error = INPUT_REFUSAL_ERROR,
                            !.hasSessionId = TRUE, !.sessionId = sid,
                            !.hasScores = TRUE,
                            !.guardrailsScores = GuardrailsScores(result)]
    ELSE [NoResponse EXCEPT !.statusCode = 200,
                            !.hasMessage = TRUE, !.message = message,
                            !.hasSessionId = TRUE, !.sessionId = sid,
                            !.hasScores = TRUE,
                            !.guardrailsScores = GuardrailsScores(result)]

\* the final return of the try block
SuccessResponse(sid, message, result) ==
    [NoResponse EXCEPT !.statusCode = 200,
                       !.hasMessage = TRUE, !.message = message,
                       !.hasSessionId = TRUE, !.sessionId = sid,
                       !.hasScores = TRUE,
                       !.guardrailsScores = GuardrailsScores(result)]

\* an id drawn once when the module is loaded, reused by every invocation
ResolveSessionIdOnce(supplied, issued) ==
    IF supplied # "" THEN supplied ELSE Uuids[1]

\* a handler that always issues its own id
ResolveSessionIdAlwaysFresh(supplied, issued) == Uuids[issued + 1]

\* body.sessionId || randomUUID()
ResolveSessionId(supplied, issued) ==
    IF supplied # "" THEN supplied ELSE Uuids[issued + 1]

\* a rejection branch that stores the user message before it returns
RejectedWritesUserMessage(table, message, sid) == Put(table, Item(message, sid))

\* the table after the branch if (isUserMessageFiltered): it calls no
\* storeMessage
RejectedWrites(table, message, sid) == table

\* a handler that reads the table whatever the request carries
UsesSuppliedHistoryNever(history) == FALSE

\* history.length > 0 ? history : await getSessionMessages(sessionId)
UsesSuppliedHistory(history) == Len(history) > 0

\* a test that never finds the message
ContainsUserMessageNever(history, message) == FALSE

\* messages.some(msg => msg.content === message && msg.role === 'user')
ContainsUserMessage(history, message) ==
    \E i \in 1..Len(history) :
        history[i].content = message /\ history[i].role = "user"

\* a handler that pushes the user message whatever the history holds
WithCurrentAlways(history, current) == Append(history, current)

\* if (!messages.some(...)) messages.push(userMessage)
WithCurrent(history, current) ==
    IF ContainsUserMessage(history, current.content) THEN history
    ELSE Append(history, current)

\* an assistant message that always carries the model text
AssistantContentRaw(result, text) == text

\* content of the assistant message of the turn
AssistantContent(result, text) ==
    IF IsFiltered(result) THEN OUTPUT_REFUSAL ELSE text

Call(op, arg, ok) == [op |-> op, arg |-> arg, ok |-> ok]

NoResult == [threw |-> FALSE, error |-> NoError,
             contentFilterResults |-> ZeroFilterResults]

-----------------------------------------------------------------------------
(* Telemetry: the spans the handler works with *)

\* "handler" is currentSpan (part_005) or span (part_003) of the handler,
\* "model" the span of invokeModel, the other two those of startActiveSpan
SpanNames == {"handler", "Guardrails-INPUT", "Guardrails-OUTPUT", "model"}

\* a span the code has not created: `started` by tracer.startSpan or
\* startActiveSpan, `adopted` from api.trace.getActiveSpan(), `ends` counts
\* the calls of end()
NoSpan ==
    [started |-> FALSE, adopted |-> FALSE, ends |-> 0, status |-> "UNSET",
     statusMessage |-> "", exception |-> "", attributes |-> {}]

NoSpans == [n \in SpanNames |-> NoSpan]

SpanExists(span) == span.started \/ span.adopted

SpanOpen(span) == SpanExists(span) /\ span.ends = 0

\* the spans that are open: those a call issued now is bracketed by
OpenSpans(all) == { n \in SpanNames : SpanOpen(all[n]) }

\* const currentSpan = api.trace.getActiveSpan() || tracer.startSpan(TRACE_NAME)
\* (part_005); const span = tracer.startSpan('lambda.handler') (part_003)
HandlerSpan(v, active) ==
    IF v = "converse" /\ active
    THEN [NoSpan EXCEPT !.adopted = TRUE]
    ELSE [NoSpan EXCEPT !.started = TRUE]

\* whether api.trace.getActiveSpan() may return a span
ActiveSpanChoices(v) == IF v = "converse" THEN BOOLEAN ELSE {FALSE}

\* setAttribute('llm.session_id', sessionId)
WithSessionAttribute(span) ==
    [span EXCEPT !.attributes = @ \cup {"llm.session_id"}]

\* what the handler does to its span before a return inside the try block
HandlerSpanOnReturn(v, span) ==
    IF v = "converse" THEN span ELSE [span EXCEPT !.ends = @ + 1]

\* what the catch block of the handler does to its span
HandlerSpanOnError(v, span, errorMessage) ==
    LET tagged == [span EXCEPT !.exception = errorMessage,
                               !.status = "ERROR",
                               !.statusMessage = errorMessage]
    IN IF v = "converse" THEN tagged ELSE [tagged EXCEPT !.ends = @ + 1]

\* reduce((acc, filter) => acc + (filter.score || 0), 0)
TotalScore(result) ==
    OrZero(result.contentFilterResults["harmful"].score)
    + OrZero(result.contentFilterResults["hateful"].score)
    + OrZero(result.contentFilterResults["sexual"].score)
    + OrZero(result.contentFilterResults["toxic"].score)

GuardrailSpanName(source) ==
    IF source = "INPUT" THEN "Guardrails-INPUT" ELSE "Guardrails-OUTPUT"

\* the callback of tracer.startActiveSpan('Guardrails-...'), once it has run;
\* part_003 calls applyGuardrails without a span
GuardrailSpan(v, source, result) ==
    IF v = "converse" /\ result.threw
    THEN [NoSpan EXCEPT !.started = TRUE,
                        !.attributes = {"guardrails.id", "guardrails.version"}]
    ELSE IF v = "converse"
    THEN [started |-> TRUE, adopted |-> FALSE, ends |-> 1,
          status |-> IF TotalScore(result) > 0 THEN "ERROR" ELSE "UNSET",
          statusMessage |-> IF TotalScore(result) > 0
                            THEN "User message filtered" ELSE "",
          exception |-> "",
          attributes |-> {"guardrails.id", "guardrails.version"}
                         \cup (IF TotalScore(result) > 0
                               THEN {IF source = "INPUT" THEN "guardrails.input"
                                     ELSE "guardrails.output"}
                               ELSE {})]
    ELSE NoSpan

\* the spans a classifier call is issued under
OpenAtClassifierCall(v, all, source) ==
    OpenSpans(all) \cup (IF v = "converse" THEN {GuardrailSpanName(source)} ELSE {})

\* the span of invokeModel once invokeModel has returned or raised
ModelSpan(v, outcome) ==
    IF outcome.kind = "throw"
    THEN [started |-> TRUE, adopted |-> FALSE, ends |-> 1,
          status |-> "ERROR", statusMessage |-> outcome.message,
          exception |-> outcome.message,
          attributes |-> IF v = "converse" THEN {"llm.model_id"}
                         ELSE {"llm.model_id", "llm.messages_count"}]
    ELSE [started |-> TRUE, adopted |-> FALSE, ends |-> 1,
          status |-> "UNSET", statusMessage |-> "", exception |-> "",
          attributes |-> IF v = "converse"
                         THEN {"llm.model_id", "llm.input_tokens",
                               "llm.output_tokens", "llm.total_tokens",
                               "llm.cache_read", "llm.cache_write"}
                         ELSE {"llm.model_id", "llm.messages_count",
                               "llm.response_length"}]

\* the model call has not been made yet
NotInvoked == [kind |-> "none", text |-> "", message |-> ""]

-----------------------------------------------------------------------------
(* The Chat component of the frontend *)

\* generateLocalId(): ids of the messages the component shows, in order
LocalIds == <<"local-1", "local-2", "local-3", "local-4", "local-5", "local-6",
              "local-7", "local-8">>

\* what the user types
ChatInputs == {"Hello", "Thanks"}

CHAT_ERROR == "Sorry, there was an error processing your request."

\* no component: the requests come from elsewhere
NoChat == [on |-> FALSE, sessionId |-> "", messages |-> <<>>]

\* useState: no messages, sessionId null
NewChat == [on |-> TRUE, sessionId |-> "", messages |-> <<>>]

\* the request handleSend sends: sessionId || undefined, the input, and the
\* messages shown before this input
ChatRequest(c, input) ==
    [parses |-> TRUE, sessionId |-> c.sessionId, message |-> input,
     history |-> c.messages]

\* sendChatMessage: the body of an ok response, an Error for any other status
sendChatMessage(resp) ==
    IF resp.statusCode = 200 THEN Returned(resp) ELSE Raised(resp.error)

\* the component once handleSend has finished; t is the component's Date.now()
handleSend(c, input, resp, t) ==
    LET sent == sendChatMessage(resp)
        userLocal == ChatMessage(LocalIds[Len(c.messages) + 1], t, "user", input, "")
    IN  IF ~sent.threw
        THEN [c EXCEPT
                !.sessionId = IF resp.sessionId # ""
                                 /\ (c.sessionId = "" \/ c.sessionId # resp.sessionId)
                              THEN resp.sessionId ELSE @,
                !.messages = c.messages \o
                    << userLocal,
                       [resp.message EXCEPT !.id = LocalIds[Len(c.messages) + 2]] >>]
        ELSE [c EXCEPT
                !.messages = c.messages \o
                    << userLocal,
                       ChatMessage(LocalIds[Len(c.messages) + 2], t, "assistant",
                                   CHAT_ERROR, "") >>]

\* the requests the component may send next
ChatRequests ==
    IF Len(served) < MaxTurns
    THEN { ChatRequest(chat, input) : input \in ChatInputs }
    ELSE {}

-----------------------------------------------------------------------------
(* Two invocations at once *)

\* no concurrent invocations in this behaviour
NoPair == <<>>

Invocations == {1, 2}

\* body.sessionId each caller may supply, and the message each one sends
PairSessionIds == <<"s1", "s2">>
PairMessages == <<"Hello", "Thanks">>

PairRequests(i) ==
    { [parses |-> TRUE, sessionId |-> s, message |-> PairMessages[i],
       history |-> <<>>] : s \in {"", PairSessionIds[i]} }

\* the table both invocations start from: one earlier message per session
PairTable ==
    { ChatMessage("s1", 0, "user", "Earlier question", "s1"),
      ChatMessage("s2", 0, "user", "Other question", "s2") }

\* the locals of an invocation that has not started; `alone` is the table
\* as it would be if this invocation were the only one, `fetched` and
\* `aloneFetched` what getSessionMessages returned and would have returned
\* then, `touched` the sessions whose items it wrote or read, `overlapped`
\* whether the other invocation was between its two puts at the read
NewInvocation(table) ==
    [pc |-> "start", request |-> NoRequest, sessionId |-> "",
     userMessage |-> NoMessage, userGuardrailsResult |-> NoResult,
     messages |-> <<>>, modelResponse |-> "",
     modelGuardrailsResult |-> NoResult, assistantMessage |-> NoMessage,
     response |-> NoResponse, alone |-> table, fetched |-> <<>>,
     aloneFetched |-> <<>>, touched |-> {}, overlapped |-> FALSE]

\* sessions of the items in which two tables differ
ChangedSessions(before, after) ==
    { m.id : m \in (before \ after) \cup (after \ before) }

-----------------------------------------------------------------------------
(* applyGuardrails on its own, over a bounded domain of classifier behaviours *)

\* filter lists: the first filter is any filter, the later ones come from the
\* smaller set
RECURSIVE FilterLists(_)
FilterLists(n) ==
    IF n = 0 THEN { <<>> }
    ELSE IF n = 1 THEN { <<>> } \cup { <<f>> : f \in Filters }
    ELSE FilterLists(n - 1) \cup
         { Append(l, f) : l \in { k \in FilterLists(n - 1) : Len(k) = n - 1 },
                          f \in MoreFilters }

FirstAssessments ==
    { [contentPolicy |-> TRUE, filters |-> l] : l \in FilterLists(MaxFilters) }
    \cup { [contentPolicy |-> FALSE, filters |-> <<>>] }

\* assessments after the first of a response
LaterAssessments ==
    { [contentPolicy |-> FALSE, filters |-> <<>>],
      [contentPolicy |-> TRUE,
       filters |-> << [type |-> "HATE", action |-> "BLOCKED", confidence |-> "HIGH"] >>],
      [contentPolicy |-> TRUE,
       filters |-> << [type |-> "INSULTS", action |-> "NONE", confidence |-> "LOW"] >>] }

RECURSIVE AssessmentLists(_)
AssessmentLists(n) ==
    IF n = 0 THEN { <<>> }
    ELSE IF n = 1 THEN { <<>> } \cup { <<a>> : a \in FirstAssessments }
    ELSE AssessmentLists(n - 1) \cup
         { Append(l, a) : l \in { k \in AssessmentLists(n - 1) : Len(k) = n - 1 },
                          a \in LaterAssessments }

ClassifierOutcomes ==
    { [kind |-> "ok", error |-> NoError, assessments |-> l] :
        l \in AssessmentLists(MaxAssessments) }
    \cup { [kind |-> "throw", error |-> e, assessments |-> <<>>] : e \in GuardrailErrors }
    \cup { [kind |-> "malformed", error |-> NoError, assessments |-> <<>>] }

InitGate ==
    /\ variant = "converse"
    /\ pc = "off"
    /\ store = {}
    /\ storeAtStart = {}
    /\ now = 0
    /\ nextUuid = 0
    /\ request = NoRequest
    /\ sessionId = ""
    /\ userMessage = NoMessage
    /\ userGuardrailsResult = NoResult
    /\ messages = <<>>
    /\ modelResponse = ""
    /\ modelGuardrailsResult = NoResult
    /\ assistantMessage = NoMessage
    /\ response = NoResponse
    /\ calls = <<>>
    /\ classified = NoClassified
    /\ spans = NoSpans
    /\ brackets = <<>>
    /\ invoked = NotInvoked
    /\ session = FALSE
    /\ served = <<>>
    /\ wire = <<>>
    /\ chat = NoChat
    /\ pair = NoPair
    /\ gatePc = "call"
    /\ gateVariant \in Variants
    /\ gateIn \in ClassifierOutcomes
    /\ gateOut = NoResult

\* one run of applyGuardrails
GateApply ==
    /\ gatePc = "call"
    /\ gateOut' = applyGuardrails(gateVariant, gateIn)
    /\ gatePc' = "returned"
    /\ UNCHANGED <<variant, turnVars, gateVariant, gateIn, sessionVars, traceVars,
                   peerVars>>

NextGate == GateApply

SpecGate == InitGate /\ [][NextGate]_vars

\* what the callers and the external capabilities may do in this behaviour
RequestChoices ==
    IF chat.on THEN ChatRequests ELSE IF session THEN SessionRequests ELSE Requests
ClassifierChoices ==
    IF session THEN SessionClassifierOutcomes ELSE TurnClassifierOutcomes
ModelChoices == IF session THEN SessionModelOutcomes ELSE ModelOutcomes
ActiveSpanChoice == IF session THEN {TRUE} ELSE ActiveSpanChoices(variant)

Init ==
    /\ variant \in Variants
    /\ pc = "start"
    /\ \E t \in InitialTables :
          /\ store = t.table
          /\ storeAtStart = t.table
          /\ now = t.clock
    /\ nextUuid = 0
    /\ request = NoRequest
    /\ sessionId = ""
    /\ userMessage = NoMessage
    /\ userGuardrailsResult = NoResult
    /\ messages = <<>>
    /\ modelResponse = ""
    /\ modelGuardrailsResult = NoResult
    /\ assistantMessage = NoMessage
    /\ response = NoResponse
    /\ calls = <<>>
    /\ classified = NoClassified
    /\ spans = NoSpans
    /\ brackets = <<>>
    /\ invoked = NotInvoked
    /\ session = FALSE
    /\ served = <<>>
    /\ wire = <<>>
    /\ chat = NoChat
    /\ pair = NoPair
    /\ gatePc = "off"
    /\ gateVariant = "converse"
    /\ gateIn = Clear
    /\ gateOut = NoResult

\* JSON.parse(event.body) raises: straight to the catch block
HandlerParseError ==
    /\ pc = "start"
    /\ request' = BadRequest
    /\ response' = ErrorResponse(PARSE_ERROR)
    /\ \E active \in ActiveSpanChoice :
          spans' = [spans EXCEPT !["handler"] =
                        HandlerSpanOnError(variant, HandlerSpan(variant, active),
                                           PARSE_ERROR)]
    /\ pc' = "done"
    /\ UNCHANGED <<variant, now, nextUuid, store, storeAtStart, sessionId,
                   userMessage, userGuardrailsResult, messages, modelResponse,
                   modelGuardrailsResult, assistantMessage, calls, classified,
                   gateVars, sessionVars, wire, peerVars, brackets, invoked>>

\* START: resolve the session id, build the user message
HandlerStart ==
    /\ pc = "start"
    /\ \E req \in RequestChoices, t \in DateNow(now) :
          LET sid == ResolveSessionId(req.sessionId, nextUuid) IN
          /\ request' = req
          /\ sessionId' = sid
          /\ nextUuid' = IF req.sessionId # "" THEN nextUuid ELSE nextUuid + 1
          /\ now' = t
          /\ userMessage' = ChatMessage(sid, t, "user", req.message, "")
    /\ \E active \in ActiveSpanChoice :
          spans' = [spans EXCEPT !["handler"] =
                        WithSessionAttribute(HandlerSpan(variant, active))]
    /\ storeAtStart' = store
    /\ pc' = "input_screening"
    /\ UNCHANGED <<variant, store, userGuardrailsResult, messages, modelResponse,
                   modelGuardrailsResult, assistantMessage, response, calls,
                   classified,
                   gateVars, sessionVars, wire, peerVars, brackets, invoked>>

\* INPUT_SCREENING: classifier call on the message, then reject or go on
InputScreening ==
    /\ pc = "input_screening"
    /\ \E cr \in ClassifierChoices :
          LET result == applyGuardrails(variant, cr) IN
          /\ calls' = Append(calls, Call("classifier", "INPUT", cr.kind = "ok"))
          /\ classified' = [classified EXCEPT !["INPUT"] = cr]
          /\ userGuardrailsResult' = result
          /\ brackets' = Append(brackets, OpenAtClassifierCall(variant, spans, "INPUT"))
          /\ spans' = [spans EXCEPT
                 !["Guardrails-INPUT"] = GuardrailSpan(variant, "INPUT", result),
                 !["handler"] =
                     IF result.threw
                     THEN HandlerSpanOnError(variant, @, result.error)
                     ELSE IF IsFiltered(result)
                     THEN HandlerSpanOnReturn(variant, @)
                     ELSE @]
          /\ IF result.threw
             THEN /\ response' = ErrorResponse(result.error)
                  /\ pc' = "done"
                  /\ UNCHANGED <<now, store>>
             ELSE IF IsFiltered(result)
             THEN /\ \E t \in (IF variant = "converse" THEN DateNow(now) ELSE {now}) :
                        /\ now' = t
                        /\ response' = RejectedResponse(variant, sessionId, result, t)
                  /\ store' = RejectedWrites(store, userMessage, sessionId)
                  /\ pc' = "done"
             ELSE /\ pc' = "persist_user"
                  /\ UNCHANGED <<response, now, store>>
    /\ UNCHANGED <<variant, nextUuid, storeAtStart, request, sessionId,
                   userMessage, messages, modelResponse, modelGuardrailsResult,
                   assistantMessage, gateVars, sessionVars, wire, peerVars, invoked>>

\* PERSIST_USER, then the synchronous part of HISTORY_ASSEMBLY
PersistUser ==
    /\ pc = "persist_user"
    /\ \E ok \in BOOLEAN :
          LET put == storeMessage(store, userMessage, sessionId, ok) IN
          /\ calls' = Append(calls, Call("put", "user", ok))
          /\ store' = put.table
          /\ brackets' = Append(brackets, OpenSpans(spans))
          /\ spans' = [spans EXCEPT !["handler"] =
                 IF put.threw THEN HandlerSpanOnError(variant, @, put.error) ELSE @]
          /\ IF put.threw
             THEN /\ response' = ErrorResponse(put.error)
                  /\ pc' = "done"
                  /\ UNCHANGED messages
             ELSE IF UsesSuppliedHistory(request.history)
             THEN /\ messages' = WithCurrent(request.history, userMessage)
                  /\ pc' = "invoke_model"
                  /\ UNCHANGED response
             ELSE /\ pc' = "fetch_history"
                  /\ UNCHANGED <<response, messages>>
    /\ UNCHANGED <<variant, now, nextUuid, storeAtStart, request, sessionId,
                   userMessage, userGuardrailsResult, modelResponse,
                   modelGuardrailsResult, assistantMessage, classified,
                   gateVars, sessionVars, wire, peerVars, invoked>>

\* HISTORY_ASSEMBLY when the request carried no history
FetchHistory ==
    /\ pc = "fetch_history"
    /\ \E ok \in BOOLEAN :
          LET read == getSessionMessages(store, sessionId, ok) IN
          /\ calls' = Append(calls, Call("query", "", ok))
          /\ brackets' = Append(brackets, OpenSpans(spans))
          /\ spans' = [spans EXCEPT !["handler"] =
                 IF read.threw THEN HandlerSpanOnError(variant, @, read.error) ELSE @]
          /\ IF read.threw
             THEN /\ response' = ErrorResponse(read.error)
                  /\ pc' = "done"
                  /\ UNCHANGED messages
             ELSE /\ messages' = WithCurrent(read.value, userMessage)
                  /\ pc' = "invoke_model"
                  /\ UNCHANGED response
    /\ UNCHANGED <<variant, now, nextUuid, store, storeAtStart, request, sessionId,
                   userMessage, userGuardrailsResult, modelResponse,
                   modelGuardrailsResult, assistantMessage, classified,
                   gateVars, sessionVars, wire, peerVars, invoked>>

\* MODEL_INVOCATION
InvokeModel ==
    /\ pc = "invoke_model"
    /\ \E outcome \in ModelChoices :
          LET r == invokeModel(outcome) IN
          /\ calls' = Append(calls, Call("model", "", outcome.kind = "ok"))
          /\ invoked' = outcome
          /\ wire' = WireMessages(variant, messages)
          /\ brackets' = Append(brackets, OpenSpans(spans) \cup {"model"})
          /\ spans' = [spans EXCEPT
                 !["model"] = ModelSpan(variant, outcome),
                 !["handler"] =
                     IF r.threw THEN HandlerSpanOnError(variant, @, r.error) ELSE @]
          /\ IF r.threw
             THEN /\ response' = ErrorResponse(r.error)
                  /\ pc' = "done"
                  /\ UNCHANGED modelResponse
             ELSE /\ modelResponse' = r.value
                  /\ pc' = "output_screening"
                  /\ UNCHANGED response
    /\ UNCHANGED <<variant, now, nextUuid, store, storeAtStart, request, sessionId,
                   userMessage, userGuardrailsResult, messages,
                   modelGuardrailsResult, assistantMessage, classified,
                   gateVars, sessionVars, peerVars>>

\* OUTPUT_SCREENING: classifier call on the model text, build the assistant message
OutputScreening ==
    /\ pc = "output_screening"
    /\ \E cr \in ClassifierChoices :
          LET result == applyGuardrails(variant, cr) IN
          /\ calls' = Append(calls, Call("classifier", "OUTPUT", cr.kind = "ok"))
          /\ classified' = [classified EXCEPT !["OUTPUT"] = cr]
          /\ modelGuardrailsResult' = result
          /\ brackets' = Append(brackets, OpenAtClassifierCall(variant, spans, "OUTPUT"))
          /\ spans' = [spans EXCEPT
                 !["Guardrails-OUTPUT"] = GuardrailSpan(variant, "OUTPUT", result),
                 !["handler"] =
                     IF result.threw
                     THEN HandlerSpanOnError(variant, @, result.error)
                     ELSE @]
          /\ IF result.threw
             THEN /\ response' = ErrorResponse(result.error)
                  /\ pc' = "done"
                  /\ UNCHANGED <<now, assistantMessage>>
             ELSE /\ \E t \in DateNow(now) :
                        /\ now' = t
                        /\ assistantMessage' =
                               ChatMessage(sessionId, t, "assistant",
                                           AssistantContent(result, modelResponse), "")
                  /\ pc' = "persist_assistant"
                  /\ UNCHANGED response
    /\ UNCHANGED <<variant, nextUuid, store, storeAtStart, request, sessionId,
                   userMessage, userGuardrailsResult, messages, modelResponse,
                   gateVars, sessionVars, wire, peerVars, invoked>>

\* PERSIST_ASSISTANT and RESPOND
PersistAssistant ==
    /\ pc = "persist_assistant"
    /\ \E ok \in BOOLEAN :
          LET put == storeMessage(store, assistantMessage, sessionId, ok) IN
          /\ calls' = Append(calls, Call("put", "assistant", ok))
          /\ store' = put.table
          /\ brackets' = Append(brackets, OpenSpans(spans))
          /\ spans' = [spans EXCEPT !["handler"] =
                 IF put.threw THEN HandlerSpanOnError(variant, @, put.error)
                 ELSE HandlerSpanOnReturn(variant, @)]
          /\ response' = IF put.threw THEN ErrorResponse(put.error)
                         ELSE SuccessResponse(sessionId, assistantMessage,
                                              modelGuardrailsResult)
    /\ pc' = "done"
    /\ UNCHANGED <<variant, now, nextUuid, storeAtStart, request, sessionId,
                   userMessage, userGuardrailsResult, messages, modelResponse,
                   modelGuardrailsResult, assistantMessage, classified,
                   gateVars, sessionVars, wire, peerVars, invoked>>

Next ==
    \/ HandlerParseError
    \/ HandlerStart
    \/ InputScreening
    \/ PersistUser
    \/ FetchHistory
    \/ InvokeModel
    \/ OutputScreening
    \/ PersistAssistant

Spec == Init /\ [][Next]_vars

\* every awaited call returns or raises, and the continuation then runs
SpecLive == Init /\ [][Next]_vars /\ WF_vars(Next)

\* a warm container serving one invocation after another on an empty table
InitSession ==
    /\ variant \in Variants
    /\ pc = "start"
    /\ store = {}
    /\ storeAtStart = {}
    /\ now = 0
    /\ nextUuid = 0
    /\ request = NoRequest
    /\ sessionId = ""
    /\ userMessage = NoMessage
    /\ userGuardrailsResult = NoResult
    /\ messages = <<>>
    /\ modelResponse = ""
    /\ modelGuardrailsResult = NoResult
    /\ assistantMessage = NoMessage
    /\ response = NoResponse
    /\ calls = <<>>
    /\ classified = NoClassified
    /\ spans = NoSpans
    /\ brackets = <<>>
    /\ invoked = NotInvoked
    /\ session = TRUE
    /\ served = <<>>
    /\ wire = <<>>
    /\ chat = NoChat
    /\ pair = NoPair
    /\ gatePc = "off"
    /\ gateVariant = "converse"
    /\ gateIn = Clear
    /\ gateOut = NoResult

\* what is remembered of an invocation that has returned
TurnRecord ==
    [parses |-> request.parses, supplied |-> request.sessionId,
     sessionId |-> sessionId, response |-> response]

\* the handler has returned; the runtime invokes it again with fresh locals
NextTurn ==
    /\ session
    /\ pc = "done"
    /\ Len(served) + 1 < MaxTurns
    /\ served' = Append(served, TurnRecord)
    /\ pc' = "start"
    /\ storeAtStart' = store
    /\ request' = NoRequest
    /\ sessionId' = ""
    /\ userMessage' = NoMessage
    /\ userGuardrailsResult' = NoResult
    /\ messages' = <<>>
    /\ modelResponse' = ""
    /\ modelGuardrailsResult' = NoResult
    /\ assistantMessage' = NoMessage
    /\ response' = NoResponse
    /\ calls' = <<>>
    /\ classified' = NoClassified
    /\ spans' = NoSpans
    /\ brackets' = <<>>
    /\ invoked' = NotInvoked
    /\ wire' = <<>>
    /\ UNCHANGED <<variant, now, nextUuid, store, session, gateVars, peerVars>>

NextSession ==
    \/ Next
    \/ NextTurn

\* a Chat component, freshly mounted, in front of a warm container
InitChat ==
    /\ variant \in Variants
    /\ pc = "start"
    /\ store = {}
    /\ storeAtStart = {}
    /\ now = 0
    /\ nextUuid = 0
    /\ request = NoRequest
    /\ sessionId = ""
    /\ userMessage = NoMessage
    /\ userGuardrailsResult = NoResult
    /\ messages = <<>>
    /\ modelResponse = ""
    /\ modelGuardrailsResult = NoResult
    /\ assistantMessage = NoMessage
    /\ response = NoResponse
    /\ calls = <<>>
    /\ classified = NoClassified
    /\ spans = NoSpans
    /\ brackets = <<>>
    /\ invoked = NotInvoked
    /\ session = TRUE
    /\ served = <<>>
    /\ wire = <<>>
    /\ chat = NewChat
    /\ pair = NoPair
    /\ gatePc = "off"
    /\ gateVariant = "converse"
    /\ gateIn = Clear
    /\ gateOut = NoResult

\* the response reaches the component: handleSend runs to its end, and the
\* next request finds a handler with fresh locals
ChatReceive ==
    /\ chat.on
    /\ pc = "done"
    /\ chat' = handleSend(chat, request.message, response, now)
    /\ served' = Append(served, TurnRecord)
    /\ pc' = "start"
    /\ storeAtStart' = store
    /\ request' = NoRequest
    /\ sessionId' = ""
    /\ userMessage' = NoMessage
    /\ userGuardrailsResult' = NoResult
    /\ messages' = <<>>
    /\ modelResponse' = ""
    /\ modelGuardrailsResult' = NoResult
    /\ assistantMessage' = NoMessage
    /\ response' = NoResponse
    /\ calls' = <<>>
    /\ classified' = NoClassified
    /\ spans' = NoSpans
    /\ brackets' = <<>>
    /\ invoked' = NotInvoked
    /\ wire' = <<>>
    /\ UNCHANGED <<variant, now, nextUuid, store, session, gateVars, pair>>

\* two invocations of the handler in flight over one table
InitPair ==
    /\ variant \in Variants
    /\ pc = "off"
    /\ store = PairTable
    /\ storeAtStart = PairTable
    /\ now = 0
    /\ nextUuid = 0
    /\ request = NoRequest
    /\ sessionId = ""
    /\ userMessage = NoMessage
    /\ userGuardrailsResult = NoResult
    /\ messages = <<>>
    /\ modelResponse = ""
    /\ modelGuardrailsResult = NoResult
    /\ assistantMessage = NoMessage
    /\ response = NoResponse
    /\ calls = <<>>
    /\ classified = NoClassified
    /\ spans = NoSpans
    /\ brackets = <<>>
    /\ invoked = NotInvoked
    /\ session = TRUE
    /\ served = <<>>
    /\ wire = <<>>
    /\ chat = NoChat
    /\ pair = [i \in Invocations |-> NewInvocation(PairTable)]
    /\ gatePc = "off"
    /\ gateVariant = "converse"
    /\ gateIn = Clear
    /\ gateOut = NoResult

\* what an invocation of the pair leaves alone: the single-turn variables
idleVars == <<variant, pc, storeAtStart, request, sessionId, userMessage,
              userGuardrailsResult, messages, modelResponse,
              modelGuardrailsResult, assistantMessage, response, calls,
              classified, wire, gateVars, sessionVars, traceVars, chat>>

\* START of invocation i
PairStart(i) ==
    /\ pair[i].pc = "start"
    /\ \E req \in PairRequests(i), t \in DateNow(now) :
          LET sid == ResolveSessionId(req.sessionId, nextUuid) IN
          /\ nextUuid' = IF req.sessionId # "" THEN nextUuid ELSE nextUuid + 1
          /\ now' = t
          /\ pair' = [pair EXCEPT ![i] =
                 [@ EXCEPT !.request = req, !.sessionId = sid,
                           !.userMessage = ChatMessage(sid, t, "user", req.message, ""),
                           !.pc = "input_screening"]]
    /\ UNCHANGED <<store, idleVars>>

\* INPUT_SCREENING of invocation i
PairInputScreening(i) ==
    /\ pair[i].pc = "input_screening"
    /\ \E cr \in ClassifierChoices :
          LET result == applyGuardrails(variant, cr)
              own == pair[i]
          IN  IF result.threw
              THEN /\ pair' = [pair EXCEPT ![i] =
                         [@ EXCEPT !.userGuardrailsResult = result,
                                   !.response = ErrorResponse(result.error),
                                   !.pc = "done"]]
                   /\ UNCHANGED <<now, store>>
              ELSE IF IsFiltered(result)
              THEN /\ \E t \in (IF variant = "converse" THEN DateNow(now) ELSE {now}) :
                         /\ now' = t
                         /\ pair' = [pair EXCEPT ![i] =
                                [@ EXCEPT !.userGuardrailsResult = result,
                                          !.response = RejectedResponse(variant,
                                                          own.sessionId, result, t),
                                          !.alone = RejectedWrites(own.alone,
                                                          own.userMessage, own.sessionId),
                                          !.pc = "done"]]
                   /\ store' = RejectedWrites(store, own.userMessage, own.sessionId)
              ELSE /\ pair' = [pair EXCEPT ![i] =
                         [@ EXCEPT !.userGuardrailsResult = result,
                                   !.pc = "persist_user"]]
                   /\ UNCHANGED <<now, store>>
    /\ UNCHANGED <<nextUuid, idleVars>>

\* PERSIST_USER of invocation i
PairPersistUser(i) ==
    /\ pair[i].pc = "persist_user"
    /\ \E ok \in BOOLEAN :
          LET own == pair[i]
              put == storeMessage(store, own.userMessage, own.sessionId, ok)
              putAlone == storeMessage(own.alone, own.userMessage, own.sessionId, ok)
              seen == [own EXCEPT !.alone = putAlone.table,
                                  !.touched = @ \cup ChangedSessions(store, put.table)]
          IN  /\ store' = put.table
              /\ pair' = [pair EXCEPT ![i] =
                     IF put.threw
                     THEN [seen EXCEPT !.response = ErrorResponse(put.error),
                                       !.pc = "done"]
                     ELSE IF UsesSuppliedHistory(own.request.history)
                     THEN [seen EXCEPT !.messages = WithCurrent(own.request.history,
                                                               own.userMessage),
                                       !.pc = "invoke_model"]
                     ELSE [seen EXCEPT !.pc = "fetch_history"]]
    /\ UNCHANGED <<now, nextUuid, idleVars>>

\* the other invocation has put its user message and not yet returned
BetweenPuts(other) ==
    other.pc \in {"fetch_history", "invoke_model", "output_screening",
                  "persist_assistant"}

\* HISTORY_ASSEMBLY of invocation i
PairFetchHistory(i) ==
    /\ pair[i].pc = "fetch_history"
    /\ \E ok \in BOOLEAN :
          LET own == pair[i]
              read == getSessionMessages(store, own.sessionId, ok)
              readAlone == getSessionMessages(own.alone, own.sessionId, ok)
              seen == [own EXCEPT
                          !.fetched = read.value,
                          !.aloneFetched = readAlone.value,
                          !.touched = @ \cup { read.value[k].id :
                                                  k \in 1..Len(read.value) },
                          !.overlapped = \E j \in Invocations \ {i} :
                                             BetweenPuts(pair[j])]
          IN  pair' = [pair EXCEPT ![i] =
                  IF read.threw
                  THEN [seen EXCEPT !.response = ErrorResponse(read.error),
                                    !.pc = "done"]
                  ELSE [seen EXCEPT !.messages = WithCurrent(read.value,
                                                            own.userMessage),
                                    !.pc = "invoke_model"]]
    /\ UNCHANGED <<now, nextUuid, store, idleVars>>

\* MODEL_INVOCATION of invocation i
PairInvokeModel(i) ==
    /\ pair[i].pc = "invoke_model"
    /\ \E outcome \in ModelChoices :
          LET r == invokeModel(outcome) IN
          pair' = [pair EXCEPT ![i] =
              IF r.threw
              THEN [@ EXCEPT !.response = ErrorResponse(r.error), !.pc = "done"]
              ELSE [@ EXCEPT !.modelResponse = r.value, !.pc = "output_screening"]]
    /\ UNCHANGED <<now, nextUuid, store, idleVars>>

\* OUTPUT_SCREENING of invocation i
PairOutputScreening(i) ==
    /\ pair[i].pc = "output_screening"
    /\ \E cr \in ClassifierChoices :
          LET result == applyGuardrails(variant, cr)
              own == pair[i]
          IN  IF result.threw
              THEN /\ pair' = [pair EXCEPT ![i] =
                         [@ EXCEPT !.modelGuardrailsResult = result,
                                   !.response = ErrorResponse(result.error),
                                   !.pc = "done"]]
                   /\ now' = now
              ELSE \E t \in DateNow(now) :
                      /\ now' = t
                      /\ pair' = [pair EXCEPT ![i] =
                             [@ EXCEPT !.modelGuardrailsResult = result,
                                       !.assistantMessage =
                                           ChatMessage(own.sessionId, t, "assistant",
                                               AssistantContent(result, own.modelResponse),
                                               ""),
                                       !.pc = "persist_assistant"]]
    /\ UNCHANGED <<nextUuid, store, idleVars>>

\* PERSIST_ASSISTANT and RESPOND of invocation i
PairPersistAssistant(i) ==
    /\ pair[i].pc = "persist_assistant"
    /\ \E ok \in BOOLEAN :
          LET own == pair[i]
              put == storeMessage(store, own.assistantMessage, own.sessionId, ok)
              putAlone == storeMessage(own.alone, own.assistantMessage,
                                       own.sessionId, ok)
          IN  /\ store' = put.table
              /\ pair' = [pair EXCEPT ![i] =
                     [@ EXCEPT
                        !.alone = putAlone.table,
                        !.touched = @ \cup ChangedSessions(store, put.table),
                        !.response = IF put.threw THEN ErrorResponse(put.error)
                                     ELSE SuccessResponse(own.sessionId,
                                                          own.assistantMessage,
                                                          own.modelGuardrailsResult),
                        !.pc = "done"]]
    /\ UNCHANGED <<now, nextUuid, idleVars>>

NextPair ==
    \E i \in Invocations :
        \/ PairStart(i)
        \/ PairInputScreening(i)
        \/ PairPersistUser(i)
        \/ PairFetchHistory(i)
        \/ PairInvokeModel(i)
        \/ PairOutputScreening(i)
        \/ PairPersistAssistant(i)

SpecPair == InitPair /\ [][NextPair]_vars

NextChat ==
    \/ HandlerStart
    \/ InputScreening
    \/ PersistUser
    \/ FetchHistory
    \/ InvokeModel
    \/ OutputScreening
    \/ PersistAssistant
    \/ ChatReceive

SpecChat == InitChat /\ [][NextChat]_vars

SpecSession == InitSession /\ [][NextSession]_vars

-----------------------------------------------------------------------------
(* Vocabulary of the properties *)

Made(op, arg) ==
    \E i \in 1..Len(calls) : calls[i].op = op /\ calls[i].arg = arg

Succeeded(op, arg) ==
    \E i \in 1..Len(calls) : calls[i].op = op /\ calls[i].arg = arg /\ calls[i].ok

Failed(op, arg) ==
    \E i \in 1..Len(calls) : calls[i].op = op /\ calls[i].arg = arg /\ ~calls[i].ok

TimesMade(op, arg) ==
    Cardinality({ i \in 1..Len(calls) : calls[i].op = op /\ calls[i].arg = arg })

Reports(result) ==
    \E c \in Categories : result.contentFilterResults[c].filtered

InputReportsFiltered == Reports(userGuardrailsResult)

OutputReportsFiltered == Reports(modelGuardrailsResult)

\* items the running turn added to the table
Written == store \ storeAtStart

Ended(status) == pc = "done" /\ response.statusCode = status

-----------------------------------------------------------------------------
(* Properties of the turn *)

C2_RejectionCarriesInputScores ==
    (pc = "done" /\ InputReportsFiltered) =>
        /\ response.statusCode = 400
        /\ response.hasSessionId /\ response.sessionId = sessionId
        /\ response.hasScores
        /\ \A c \in Categories :
              response.guardrailsScores[c] =
                  userGuardrailsResult.contentFilterResults[c].score

\* C3: a classifier failure never rejects or rewrites the turn: after a
\* failed input screening the turn is not answered 400, the user message is
\* put next and the model is invoked once that put succeeded; after a failed
\* output screening the assistant message, stored and returned, carries the
\* raw model text
C3_FailOpenTurn ==
    /\ Failed("classifier", "INPUT") =>
          /\ response.statusCode # 400
          /\ pc = "persist_user" \/ Made("put", "user")
          /\ Succeeded("put", "user") =>
                pc \in {"fetch_history", "invoke_model"} \/ Made("model", "")
    /\ Failed("classifier", "OUTPUT") =>
          /\ assistantMessage.role = "assistant"
          /\ assistantMessage.content = modelResponse
          /\ Succeeded("put", "assistant") =>
                /\ Ended(200)
                /\ response.message.content = modelResponse
                /\ \E i \in store : /\ i.id = sessionId
                                    /\ i.timestamp = assistantMessage.timestamp
                                    /\ i.role = "assistant"
                                    /\ i.content = modelResponse

C3_Witness ==
    /\ Ended(200)
    /\ Failed("classifier", "INPUT")
    /\ Failed("classifier", "OUTPUT")
    /\ modelResponse = "Hi there"

\* C4: applyGuardrails never throws; when the classifier call throws, the
\* outcome has error set; every outcome with error set has four zero scores
\* and four false filtered flags
C4_GateNeverThrows ==
    gatePc = "returned" =>
        /\ ~gateOut.threw
        /\ gateIn.kind = "throw" => gateOut.error # NoError
        /\ gateOut.error # NoError =>
              \A c \in Categories :
                  /\ gateOut.contentFilterResults[c].score = 0
                  /\ gateOut.contentFilterResults[c].filtered = FALSE

C4_Witness ==
    /\ gatePc = "returned"
    /\ gateIn.kind = "throw"
    /\ gateIn.error = "AccessDeniedException"
    /\ gateOut.error = "Access denied: Insufficient permissions to apply guardrails"

\* C5: when output screening reports a filtered category, the assistant
\* message stored and the one returned have the refusal string as content,
\* and the raw model text is in neither
C5_FilteredOutputIsReplaced ==
    OutputReportsFiltered =>
        /\ assistantMessage.content = OUTPUT_REFUSAL
        /\ assistantMessage.content # modelResponse
        /\ \A i \in Written :
              i.role = "assistant" =>
                  i.content = OUTPUT_REFUSAL /\ i.content # modelResponse
        /\ Ended(200) =>
              /\ response.message.content = OUTPUT_REFUSAL
              /\ response.message.content # modelResponse
              /\ \E i \in store : /\ i.id = sessionId
                                  /\ i.timestamp = assistantMessage.timestamp
                                  /\ i.role = "assistant"
                                  /\ i.content = OUTPUT_REFUSAL

C5_Witness ==
    /\ Ended(200)
    /\ OutputReportsFiltered
    /\ modelResponse = "Hi there"
    /\ \E i \in Written : i.role = "assistant"

\* C6: once the model invoker has returned, the turn never ends with 400;
\* when the output is filtered and the assistant message is stored, the
\* caller receives a 200 with an assistant message and the scores of the
\* output screening
C6_OutputScreeningNeverAborts ==
    /\ Succeeded("model", "") => response.statusCode # 400
    /\ (pc = "done" /\ OutputReportsFiltered /\ Succeeded("put", "assistant")) =>
          /\ response.statusCode = 200
          /\ response.hasMessage
          /\ response.message.role = "assistant"
          /\ response.hasScores
          /\ \A c \in Categories :
                LET score == modelGuardrailsResult.contentFilterResults[c].score IN
                score # NaN => response.guardrailsScores[c] = score

C6_Witness ==
    /\ Ended(200)
    /\ OutputReportsFiltered
    /\ variant = "converse"
    /\ response.guardrailsScores["hateful"] = 10
    /\ userGuardrailsResult.contentFilterResults["hateful"].score = 7

\* C7: when the model call throws, the turn ends with 500, no assistant
\* message of the turn is written, and the model was called exactly once
C7_ModelFailureIsFatal ==
    Failed("model", "") =>
        /\ Ended(500)
        /\ ~Made("put", "assistant")
        /\ \A i \in Written : i.role # "assistant"
        /\ TimesMade("model", "") = 1

C7_Witness ==
    /\ Ended(500)
    /\ Failed("model", "")
    /\ response.errorMessage = MODEL_ERROR

\* C8: a failed put of the user message ends the turn with 500 before any
\* model call; a failed put of the assistant message ends the turn with 500,
\* never 200
C8_WriteFailureIsFatal ==
    /\ Failed("put", "user") =>
          /\ Ended(500)
          /\ ~Made("model", "")
    /\ Failed("put", "assistant") => Ended(500)

C8_Witness ==
    /\ Ended(500)
    /\ Failed("put", "assistant")
    /\ Succeeded("put", "user")
    /\ response.errorMessage = STORE_ERROR

\* C9: a 200 implies that the model call and both puts succeeded, a 400
\* implies that input screening reported a filtered category, and a turn with
\* a failed model call or a failed put answers neither 200 nor 400
C9_OnlyRejectionAndDegradedGateSucceed ==
    /\ response.statusCode = 200 =>
          /\ Succeeded("model", "")
          /\ Succeeded("put", "user")
          /\ Succeeded("put", "assistant")
    /\ response.statusCode = 400 => InputReportsFiltered
    /\ (Failed("model", "") \/ Failed("put", "user") \/ Failed("put", "assistant")) =>
          response.statusCode \notin {200, 400}

C9_Witness ==
    /\ Ended(200)
    /\ Failed("classifier", "INPUT")
    /\ Succeeded("model", "")
    /\ Succeeded("put", "assistant")
    /\ request.history = <<>>

\* C10 as stated: after a turn that ends with 500 the store holds what it
\* held before the turn
C10_StoreUntouchedOn500 ==
    Ended(500) => store = storeAtStart

\* C10: after a turn that ends with 500 the store holds what it held before
\* the turn, or that with the turn's user message put; no assistant message of
\* the turn is in it
C10_OnlyUserMessageOn500 ==
    Ended(500) =>
        /\ \/ store = storeAtStart
           \/ /\ Succeeded("put", "user")
              /\ store = Put(storeAtStart, [userMessage EXCEPT !.sessionId = sessionId])
        /\ Failed("put", "user") => store = storeAtStart
        /\ \A i \in Written : i.role = "user"

C10_Witness ==
    /\ Ended(500)
    /\ Failed("model", "")
    /\ store # storeAtStart
    /\ userMessage.sessionId = ""
    /\ \E i \in store : i.content = "Hello" /\ i.sessionId = sessionId

\* C11: when the request carried no history and the history query fails, the
\* working history is just the current user message, the turn goes on to the
\* model invocation, and a 500 of that turn comes from a failed model call or
\* a failed assistant put, never from the read
C11_ReadFailureIsNotFatal ==
    Failed("query", "") =>
        /\ request.history = <<>>
        /\ messages = <<userMessage>>
        /\ pc = "invoke_model" \/ Made("model", "")
        /\ response.statusCode = 500 =>
              Failed("model", "") \/ Failed("put", "assistant")

C11_Witness ==
    /\ Ended(200)
    /\ Failed("query", "")
    /\ messages = <<userMessage>>
    /\ storeAtStart # {}

\* the calls of a turn, as "op:arg" names in the order they were issued
CallNames == [i \in 1..Len(calls) |-> <<calls[i].op, calls[i].arg>>]

IsPrefix(s, t) == Len(s) <= Len(t) /\ \A i \in 1..Len(s) : s[i] = t[i]

\* the order of the stages of a turn; the query is there when the request
\* carried no history
StageOrder(withQuery) ==
    << <<"classifier", "INPUT">>, <<"put", "user">> >>
    \o (IF withQuery THEN << <<"query", "">> >> ELSE <<>>)
    \o << <<"model", "">>, <<"classifier", "OUTPUT">>, <<"put", "assistant">> >>

Terminal == pc = "done" /\ response.statusCode \in {200, 400, 500}

\* C13: every turn reaches a terminal outcome, a 400, a 200 or a 500
\* response; the handler never ends without a response; once the outcome is
\* reached it stays and no further call is issued
C13_TurnTerminates ==
    /\ <>Terminal
    /\ [](pc = "done" => response.statusCode \in {200, 400, 500})
    /\ [][pc = "done" => (pc' = "done" /\ response' = response /\ calls' = calls)]_vars

C13_Witness ==
    /\ Terminal
    /\ response.statusCode = 500
    /\ response.errorMessage = PARSE_ERROR
    /\ calls = <<>>

-----------------------------------------------------------------------------
(* Session ids *)

\* the invocations of the behaviour that have resolved their session id
Turns == served \o (IF pc = "start" THEN <<>> ELSE <<TurnRecord>>)

Unsupplied(t) == t.parses /\ t.supplied = ""

IssuedIds == { Uuids[i] : i \in 1..Len(Uuids) }

\* C14: a turn whose request has no sessionId gets a non-empty id issued by
\* the server, its 200 or 400 response carries that id, and no two such turns
\* of a sequence of invocations get the same id
C14_GeneratedIdsAreUnique ==
    \A i \in 1..Len(Turns) :
        Unsupplied(Turns[i]) =>
            /\ Turns[i].sessionId # ""
            /\ Turns[i].sessionId \in IssuedIds
            /\ Turns[i].response.statusCode \in {200, 400} =>
                  /\ Turns[i].response.hasSessionId
                  /\ Turns[i].response.sessionId = Turns[i].sessionId
            /\ \A j \in 1..Len(Turns) :
                  (j # i /\ Unsupplied(Turns[j])) =>
                      Turns[j].sessionId # Turns[i].sessionId

C14_Witness ==
    /\ Len(served) >= 1
    /\ Unsupplied(served[1])
    /\ served[1].response.statusCode = 200
    /\ Ended(200)
    /\ request.sessionId = ""
    /\ response.sessionId # served[1].response.sessionId

\* C15: a turn whose request supplies a sessionId runs under exactly that id:
\* no id is issued, its 200 or 400 response carries the supplied value, and
\* every item it writes has id and sessionId equal to it
C15_SuppliedIdIsKept ==
    (pc # "start" /\ request.parses /\ request.sessionId # "") =>
        /\ sessionId = request.sessionId
        /\ nextUuid = 0
        /\ response.statusCode \in {200, 400} =>
              /\ response.hasSessionId
              /\ response.sessionId = request.sessionId
        /\ \A item \in Written :
              item.id = request.sessionId /\ item.sessionId = request.sessionId

C15_Witness ==
    /\ Ended(200)
    /\ request.sessionId = "s1"
    /\ response.sessionId = "s1"
    /\ Cardinality(Written) = 2

\* C16 as stated: every response, whatever its status, carries the session
\* id resolved for the turn
C16_EveryResponseCarriesSessionId ==
    pc = "done" => (response.hasSessionId /\ response.sessionId = sessionId)

\* C16: a 200 or 400 response carries the resolved session id; a 500
\* response carries an error and a message and no session id
C16_SessionIdOn200And400 ==
    pc = "done" =>
        IF response.statusCode \in {200, 400}
        THEN /\ response.hasSessionId
             /\ response.sessionId = sessionId
             /\ sessionId # ""
        ELSE /\ response.statusCode = 500
             /\ ~response.hasSessionId
             /\ response.error = HANDLER_ERROR

C16_Witness ==
    /\ Ended(400)
    /\ request.sessionId = ""
    /\ response.hasSessionId
    /\ response.sessionId = sessionId
    /\ sessionId = Uuids[1]

-----------------------------------------------------------------------------
(* Properties of the safety gate's record *)

\* the filter type the specification assigns to a category
TypeFor(c) ==
    CASE c = "hateful" -> "HATE"
      [] c = "sexual" -> "SEXUAL"
      [] c = "harmful" -> "VIOLENCE"
      [] c = "toxic" -> "INSULTS"

\* the score the specification assigns to a confidence, in tenths
ConfidenceTable(confidence) ==
    CASE confidence = "HIGH" -> 10
      [] confidence = "MEDIUM" -> 7
      [] confidence = "LOW" -> 3
      [] OTHER -> 0

\* the filter types a classifier response mentions, in any assessment
TypesIn(cr) ==
    UNION { { cr.assessments[a].filters[i].type :
                i \in 1..Len(cr.assessments[a].filters) } :
            a \in 1..Len(cr.assessments) }

\* the filters the gate reads: those of the first assessment
ProcessedFilters(cr) ==
    IF cr.kind = "ok" /\ Len(cr.assessments) > 0 /\ cr.assessments[1].contentPolicy
    THEN cr.assessments[1].filters
    ELSE <<>>

\* filter i of fs is the last one of its type, and its type is that of c
Decides(fs, i, c) ==
    /\ fs[i].type = TypeFor(c)
    /\ \A j \in (i + 1)..Len(fs) : fs[j].type # fs[i].type

Zero == [filtered |-> FALSE, score |-> 0]

\* C17: whatever the classifier call did, the record applyGuardrails returns
\* has exactly the four categories, each with exactly a boolean `filtered` and
\* a `score` of type number
C17_FourCategoriesAlways ==
    gatePc = "returned" =>
        /\ DOMAIN gateOut.contentFilterResults = Categories
        /\ \A c \in Categories :
              /\ DOMAIN gateOut.contentFilterResults[c] = {"filtered", "score"}
              /\ gateOut.contentFilterResults[c].filtered \in BOOLEAN
              /\ gateOut.contentFilterResults[c].score \in Int

C17_Witness ==
    /\ gatePc = "returned"
    /\ gateIn.kind = "malformed"
    /\ DOMAIN gateOut.contentFilterResults = Categories
    /\ \A c \in Categories : gateOut.contentFilterResults[c] = Zero

\* C18: in the record applyGuardrails returns, a category is written by the
\* filters of its own type only (HATE -> hateful, SEXUAL -> sexual,
\* VIOLENCE -> harmful, INSULTS -> toxic): a category whose type the response
\* does not mention, or the read filters do not hold, is {filtered: false,
\* score: 0}, and otherwise it is what the last read filter of its type says
C18_TypesMapToCategories ==
    gatePc = "returned" =>
        LET out == gateOut.contentFilterResults
            fs == ProcessedFilters(gateIn)
        IN \A c \in Categories :
              /\ TypeFor(c) \notin TypesIn(gateIn) => out[c] = Zero
              /\ (\A i \in 1..Len(fs) : fs[i].type # TypeFor(c)) => out[c] = Zero
              /\ \A i \in 1..Len(fs) :
                    Decides(fs, i, c) =>
                        out[c] = [filtered |-> fs[i].action = "BLOCKED",
                                  score |-> ScoreOf(gateVariant, fs[i].confidence)]

C18_Witness ==
    /\ gatePc = "returned"
    /\ gateIn.kind = "ok"
    /\ Len(gateIn.assessments) = 1
    /\ Len(ProcessedFilters(gateIn)) = 2
    /\ ProcessedFilters(gateIn)[1] =
           [type |-> "VIOLENCE", action |-> "BLOCKED", confidence |-> "ABSENT"]
    /\ ProcessedFilters(gateIn)[2].type = "MISCONDUCT"
    /\ gateOut.contentFilterResults["harmful"] = [filtered |-> TRUE, score |-> 0]
    /\ \A c \in Categories \ {"harmful"} : gateOut.contentFilterResults[c] = Zero

\* C19 as stated: in both handler files every score of the returned record is
\* one of 0, 0.3, 0.7, 1.0, and the score written for a filter is the table's
\* value for its confidence (HIGH 1.0, MEDIUM 0.7, LOW 0.3, anything else 0)
C19_ScoresFollowConfidenceTable ==
    gatePc = "returned" =>
        LET out == gateOut.contentFilterResults
            fs == ProcessedFilters(gateIn)
        IN \A c \in Categories :
              /\ out[c].score \in {0, 3, 7, 10}
              /\ \A i \in 1..Len(fs) :
                    Decides(fs, i, c) =>
                        out[c].score = ConfidenceTable(fs[i].confidence)

\* what a screening call reported against what the classifier answered
FilteredIffBlocked(cr, result) ==
    LET fs == ProcessedFilters(cr) IN
    \A c \in Categories :
        result.contentFilterResults[c].filtered
            <=> \E i \in 1..Len(fs) : Decides(fs, i, c) /\ fs[i].action = "BLOCKED"

ScoredNotBlocked(cr, result) ==
    /\ cr.kind = "ok"
    /\ \E c \in Categories : result.contentFilterResults[c].score # 0
    /\ \A i \in 1..Len(ProcessedFilters(cr)) :
          ProcessedFilters(cr)[i].action # "BLOCKED"

\* C20: after a screening call, a category is reported filtered exactly when
\* the last read filter of its type has action BLOCKED, whatever its
\* confidence; and a turn whose input got a nonzero score but no BLOCKED
\* action goes on: it is never answered 400, its user message is put, and
\* after that put the model is invoked
C20_FilteredMeansBlocked ==
    /\ classified["INPUT"] # NotCalled =>
          FilteredIffBlocked(classified["INPUT"], userGuardrailsResult)
    /\ classified["OUTPUT"] # NotCalled =>
          FilteredIffBlocked(classified["OUTPUT"], modelGuardrailsResult)
    /\ ScoredNotBlocked(classified["INPUT"], userGuardrailsResult) =>
          /\ response.statusCode # 400
          /\ pc = "persist_user" \/ Made("put", "user")
          /\ Succeeded("put", "user") =>
                (pc \in {"fetch_history", "invoke_model"} \/ Made("model", ""))

C20_Witness ==
    /\ Ended(200)
    /\ classified["INPUT"] = OneFilter("HATE", "NONE", "MEDIUM")
    /\ userGuardrailsResult.contentFilterResults["hateful"] =
           [filtered |-> FALSE, score |-> 7]
    /\ userMessage \in { [m EXCEPT !.sessionId = ""] : m \in Written }
    /\ Succeeded("model", "")

-----------------------------------------------------------------------------
(* Scores and content of the response *)

\* the record a screening stage of the running turn produced
ScreeningResult(source) ==
    IF source = "INPUT" THEN userGuardrailsResult ELSE modelGuardrailsResult

\* C21 as stated: when the turn has ended, every category that a screening
\* stage (INPUT or OUTPUT) scored nonzero without filtering it has that score
\* in the response's guardrailsScores
C21_AdvisoryScoresSurfaced ==
    pc = "done" =>
        \A source \in {"INPUT", "OUTPUT"}, c \in Categories :
            LET entry == ScreeningResult(source).contentFilterResults[c] IN
            (classified[source] # NotCalled /\ entry.score # 0 /\ ~entry.filtered) =>
                /\ response.hasScores
                /\ response.guardrailsScores[c] = entry.score

\* C22 as stated: a 200 response carries the assistant message of the turn,
\* the resolved session id and, category by category, the scores of the
\* OUTPUT screening; when both screenings are all-clear the content is the
\* model's text and the four scores are 0
C22_SuccessCarriesOutputScores ==
    Ended(200) =>
        /\ response.hasMessage
        /\ response.message = assistantMessage
        /\ response.message.role = "assistant"
        /\ response.hasSessionId
        /\ response.sessionId = sessionId
        /\ response.hasScores
        /\ \A c \in Categories :
              response.guardrailsScores[c] =
                  modelGuardrailsResult.contentFilterResults[c].score
        /\ (classified["INPUT"] = Clear /\ classified["OUTPUT"] = Clear) =>
              /\ response.message.content = invoked.text
              /\ response.guardrailsScores = NoScores

-----------------------------------------------------------------------------
(* History assembly *)

\* the entries of a history that repeat the message as a user turn
Matching(history, message) ==
    { i \in 1..Len(history) :
        history[i].role = "user" /\ history[i].content = message }

\* what the table returns for the session when the history is read: the
\* turn's user message has been put by then
FetchedHistory ==
    IF Succeeded("query", "")
    THEN Query(Put(storeAtStart, Item(userMessage, sessionId)), sessionId)
    ELSE <<>>

\* C23: once the working history is assembled, it is the supplied history
\* (and the table was not read) when that is non-empty, otherwise what the
\* table returned for the session; the user message of the turn is appended
\* at the end exactly when no entry has role user and the request's message
\* as content
C23_HistoryAssembly ==
    (pc \in {"invoke_model", "output_screening", "persist_assistant"}
        \/ Made("model", "")) =>
        LET base == IF request.history # <<>> THEN request.history
                    ELSE FetchedHistory
        IN /\ request.history # <<>> => ~Made("query", "")
           /\ request.history = <<>> => Made("query", "")
           /\ IF Matching(base, request.message) = {}
              THEN messages = Append(base, userMessage)
              ELSE messages = base

C23_Witness ==
    /\ Succeeded("model", "")
    /\ request.history # <<>>
    /\ Matching(request.history, request.message) = {}
    /\ ~Made("query", "")
    /\ messages = Append(request.history, userMessage)

\* C24 as stated: when the supplied history holds an entry with role user
\* and the message as content, the sequence given to the model holds exactly
\* one such entry
C24_ExactlyOneCurrentMessage ==
    (Made("model", "") /\ Matching(request.history, request.message) # {}) =>
        Cardinality(Matching(messages, request.message)) = 1

\* C24: when the supplied history holds an entry with role user and the
\* message as content, the sequence given to the model is the supplied
\* history itself: nothing is appended, and it holds as many such entries as
\* the caller supplied (exactly one when the caller supplied one)
C24_NothingAppendedWhenPresent ==
    (Made("model", "") /\ Matching(request.history, request.message) # {}) =>
        /\ messages = request.history
        /\ Cardinality(Matching(messages, request.message))
               = Cardinality(Matching(request.history, request.message))

C24_Witness ==
    /\ Succeeded("model", "")
    /\ Cardinality(Matching(request.history, request.message)) = 1
    /\ Len(request.history) = 3
    /\ messages = request.history

-----------------------------------------------------------------------------
(* Telemetry *)

\* a span that was ended once, or that belongs to the runtime which ends it
\* after the handler has returned
Closed(span) == span.adopted \/ span.ends = 1

\* C25 as stated: when the handler has returned, every span that was started
\* during the turn has been ended exactly once, in both handler files
C25_SpansEndedExactlyOnce ==
    pc = "done" =>
        \A n \in SpanNames : spans[n].started => spans[n].ends = 1

\* C26 as stated: every external call of the turn was issued under a span
\* that was open then and is closed once the handler has returned
C26_CallsAreBracketed ==
    /\ Len(brackets) = Len(calls)
    /\ \A i \in 1..Len(calls) :
          \E n \in brackets[i] : pc = "done" => Closed(spans[n])

\* C27: when the model call raises, the span of invokeModel holds the
\* exception, has status ERROR and was ended once; invokeModel returns no
\* value, the handler makes no further call and answers 500 with the
\* message of the error the model raised
C27_ModelErrorIsReraised ==
    invoked.kind = "throw" =>
        /\ spans["model"].exception = invoked.message
        /\ spans["model"].status = "ERROR"
        /\ spans["model"].statusMessage = invoked.message
        /\ spans["model"].ends = 1
        /\ modelResponse = ""
        /\ calls[Len(calls)] = Call("model", "", FALSE)
        /\ Ended(500)
        /\ response.errorMessage = invoked.message
        /\ spans["handler"].exception = invoked.message

C27_Witness ==
    /\ Ended(500)
    /\ invoked.kind = "throw"
    /\ invoked.message = MODEL_ERROR
    /\ response.errorMessage = MODEL_ERROR
    /\ spans["model"].ends = 1
    /\ spans["model"].status = "ERROR"

-----------------------------------------------------------------------------
(* What a failing provider lets the caller and the telemetry see *)

\* the error texts the classifier and the model provider raised in the turn
RawErrors ==
    { classified[source].error :
        source \in { x \in {"INPUT", "OUTPUT"} : classified[x].kind = "throw" } }
    \cup (IF invoked.kind = "throw" THEN {invoked.message} ELSE {})

\* the texts of the response body
ResponseTexts == {response.error, response.errorMessage, response.message.content}

\* C28 as stated: no text of the response body is the error text a failing
\* classifier or model call raised
C28_NoRawProviderErrorInResponse ==
    pc = "done" => RawErrors \cap ResponseTexts = {}

\* the classifier call of the stage ended in the catch block of applyGuardrails
Degraded(source) == classified[source].kind \in {"throw", "malformed"}

\* every screening of the turn so far was all-clear or degraded
QuietScreening ==
    \A source \in {"INPUT", "OUTPUT"} :
        classified[source] \in {NotCalled, Clear} \/ Degraded(source)

\* what the caller sees of a response
Visible(r) ==
    [statusCode |-> r.statusCode, hasMessage |-> r.hasMessage,
     role |-> r.message.role, content |-> r.message.content,
     hasSessionId |-> r.hasSessionId, hasScores |-> r.hasScores,
     guardrailsScores |-> r.guardrailsScores]

\* what the caller sees of a turn with an all-clear classifier, as a function
\* of the model's and the table's behaviour alone
AllClearVisible ==
    IF Failed("put", "user") \/ invoked.kind = "throw" \/ Failed("put", "assistant")
    THEN [statusCode |-> 500, hasMessage |-> FALSE, role |-> "none",
          content |-> "", hasSessionId |-> FALSE, hasScores |-> FALSE,
          guardrailsScores |-> NoScores]
    ELSE [statusCode |-> 200, hasMessage |-> TRUE, role |-> "assistant",
          content |-> invoked.text, hasSessionId |-> TRUE, hasScores |-> TRUE,
          guardrailsScores |-> NoScores]

\* C29: a turn whose classifier calls failed (on input, on output or on
\* both) answers what a turn with an all-clear classifier answers for the
\* same request, model and table behaviour: same status, assistant content,
\* presence of the session id and four scores
C29_DegradedClassifierIsInvisible ==
    (pc = "done" /\ request.parses /\ QuietScreening) =>
        Visible(response) = AllClearVisible

C29_Witness ==
    /\ Ended(200)
    /\ classified["INPUT"].kind = "throw"
    /\ classified["OUTPUT"].kind = "malformed"
    /\ response.message.content = "Hi there"
    /\ response.guardrailsScores = NoScores

\* C30 as stated: when a classifier call of the turn failed, the span of
\* that screening stage is not the span of an all-clear screening, or the
\* handler's span carries the classifier's error
C30_ClassifierFailureIsRecorded ==
    \A source \in {"INPUT", "OUTPUT"} :
        classified[source].kind = "throw" =>
            \/ spans[GuardrailSpanName(source)]
                   # GuardrailSpan(variant, source, applyGuardrails(variant, Clear))
            \/ spans["handler"].exception
                   \in {classified[source].error,
                        GuardrailErrorMessage(classified[source].error)}
            \/ "error" \in spans["handler"].attributes

-----------------------------------------------------------------------------
(* What the table holds *)

\* C31 as stated: an item that is in the table stays in it unchanged: the
\* items the table held when the turn started, and the turn's user message
\* once it was put, are still items of the table
C31_StoredMessagesAreImmutable ==
    /\ \A item \in storeAtStart : item \in store
    /\ Succeeded("put", "user") => Item(userMessage, sessionId) \in store

\* the messages a read of the session returns
SessionHistory == { Query(store, sessionId)[i] : i \in 1..Len(Query(store, sessionId)) }

\* C32 as stated: after a turn that answered 200 the table holds, under the
\* turn's session id, the user message and the assistant message of the
\* turn, and a read of the session returns both
C32_BothMessagesStoredOn200 ==
    Ended(200) =>
        /\ Item(userMessage, sessionId) \in store
        /\ Item(assistantMessage, sessionId) \in store
        /\ userMessage.id = sessionId /\ assistantMessage.id = sessionId
        /\ Item(userMessage, sessionId) \in SessionHistory
        /\ Item(assistantMessage, sessionId) \in SessionHistory

-----------------------------------------------------------------------------
(* What the model is given and how often the collaborators are called *)

\* C36 as stated: once the model has been invoked, the history it was given
\* ends with the current user message: the last entry has role user and the
\* content of the request's message
C36_HistoryEndsWithCurrentMessage ==
    Made("model", "") =>
        /\ Len(messages) > 0
        /\ messages[Len(messages)].role = "user"
        /\ messages[Len(messages)].content = request.message

\* positions in the call log of the calls of one kind
CallsAt(op, arg) == { i \in 1..Len(calls) : calls[i].op = op /\ calls[i].arg = arg }

\* C37: in a turn the classifier is called at most twice: once for INPUT
\* (exactly once when the turn of a parsed request has ended) and once for
\* OUTPUT, the latter only after the model returned; the model is called at
\* most once, the history is read at most once, at most two puts are issued,
\* one of the user message and after it one of the assistant message; no
\* call appears twice in the log
C37_NoCallIsRepeated ==
    /\ \A i \in 1..Len(calls) :
          <<calls[i].op, calls[i].arg>> \in
              { <<"classifier", "INPUT">>, <<"classifier", "OUTPUT">>,
                <<"model", "">>, <<"query", "">>,
                <<"put", "user">>, <<"put", "assistant">> }
    /\ \A i, j \in 1..Len(calls) :
          (calls[i].op = calls[j].op /\ calls[i].arg = calls[j].arg) => i = j
    /\ (pc = "done" /\ request.parses) => TimesMade("classifier", "INPUT") = 1
    /\ Made("classifier", "OUTPUT") =>
          /\ Succeeded("model", "")
          /\ \A i \in CallsAt("classifier", "OUTPUT"), j \in CallsAt("model", "") : j < i
    /\ TimesMade("put", "user") + TimesMade("put", "assistant") <= 2
    /\ \A i \in CallsAt("put", "assistant") :
          \E j \in CallsAt("put", "user") : j < i /\ calls[j].ok

C37_Witness ==
    /\ Ended(200)
    /\ Len(calls) = 6
    /\ TimesMade("classifier", "INPUT") = 1
    /\ TimesMade("classifier", "OUTPUT") = 1
    /\ TimesMade("model", "") = 1
    /\ TimesMade("query", "") = 1
    /\ TimesMade("put", "user") = 1
    /\ TimesMade("put", "assistant") = 1

\* C38 as stated: in the Converse handler, the span of a screening that ran
\* has status ERROR exactly when that screening reported a filtered category
C38_GuardrailSpanErrorIffFiltered ==
    variant = "converse" =>
        \A source \in {"INPUT", "OUTPUT"} :
            Made("classifier", source) =>
                (spans[GuardrailSpanName(source)].status = "ERROR"
                    <=> Reports(ScreeningResult(source)))

\* C39 as stated: when the classifier answered, a category is reported
\* filtered whenever some assessment of the answer holds, at some position,
\* a filter of the category's type with action BLOCKED
C39_AnyBlockedFilterIsReported ==
    (gatePc = "returned" /\ gateIn.kind = "ok") =>
        \A c \in Categories :
            (\E a \in 1..Len(gateIn.assessments) :
                /\ gateIn.assessments[a].contentPolicy
                /\ \E i \in 1..Len(gateIn.assessments[a].filters) :
                      /\ gateIn.assessments[a].filters[i].type = TypeFor(c)
                      /\ gateIn.assessments[a].filters[i].action = "BLOCKED")
            => gateOut.contentFilterResults[c].filtered

\* C35: the Converse invoker sends one message per history entry, at the
\* same position and with the entry's content as its only text block; the
\* role is USER for a user entry and ASSISTANT for an assistant or a system
\* entry; the conversation sent is as long as the history
C35_ConverseKeepsEveryEntry ==
    (variant = "converse" /\ Made("model", "")) =>
        /\ Len(wire) = Len(messages)
        /\ \A i \in 1..Len(messages) :
              /\ wire[i].content = << [text |-> messages[i].content] >>
              /\ messages[i].role = "user" => wire[i].role = "USER"
              /\ messages[i].role \in {"assistant", "system"} =>
                    wire[i].role = "ASSISTANT"
              /\ wire[i].role \in {"USER", "ASSISTANT"}

C35_Witness ==
    /\ variant = "converse"
    /\ Made("model", "")
    /\ Len(messages) = 3
    /\ messages[1].role = "system"
    /\ wire[1] = [role |-> "ASSISTANT", content |-> << [text |-> "Be brief"] >>]
    /\ wire[2].role = "USER"
    /\ wire[3].role = "ASSISTANT"

-----------------------------------------------------------------------------
(* The session of a chat *)

\* C40 as stated: every request the component sends after its first one
\* carries the sessionId of the first response, whether that response was a
\* 200 or a 400
C40_LaterRequestsCarryFirstSessionId ==
    \A k \in 2..Len(Turns) :
        Turns[1].response.hasSessionId =>
            Turns[k].supplied = Turns[1].response.sessionId

-----------------------------------------------------------------------------
(* Two sessions at once *)

\* the items of one session
SessionItems(table, sid) == { m \in table : m.id = sid }

\* C34: of two invocations in flight at once, whatever the order of their
\* steps: they run under different session ids; the items the table holds
\* under an invocation's session id are those it would hold had the
\* invocation run alone; the history it read is the one it would have read
\* alone; it wrote and read items of its own session only; the history it
\* gives the model, the assistant message and the session id of its response
\* are those of its own session
C34_SessionsAreIsolated ==
    \A i \in DOMAIN pair :
        LET own == pair[i] IN
        own.pc # "start" =>
            /\ \A j \in DOMAIN pair \ {i} :
                  pair[j].pc # "start" => pair[j].sessionId # own.sessionId
            /\ SessionItems(store, own.sessionId) = SessionItems(own.alone, own.sessionId)
            /\ own.fetched = own.aloneFetched
            /\ own.touched \subseteq {own.sessionId}
            /\ \A k \in 1..Len(own.messages) : own.messages[k].id = own.sessionId
            /\ own.response.hasSessionId => own.response.sessionId = own.sessionId
            /\ own.response.statusCode = 200 =>
                  /\ own.response.message = own.assistantMessage
                  /\ own.response.message.id = own.sessionId

C34_Witness ==
    /\ DOMAIN pair = Invocations
    /\ \A i \in Invocations :
          /\ pair[i].pc = "done"
          /\ pair[i].response.statusCode = 200
          /\ pair[i].overlapped
          /\ Len(pair[i].fetched) >= 2
          /\ pair[i].touched = {pair[i].sessionId}
    /\ pair[1].sessionId = "s1"
    /\ pair[2].sessionId = "s2"
    /\ pair[1].userMessage.timestamp = pair[2].userMessage.timestamp

====
